---- MODULE Spec2Model ----
(***************************************************************************)
(* QC report relay: POST /api/gemini of src/app.py (Flask, gemini_proxy)   *)
(* and of src/server.py (http.server, Handler.do_POST).                    *)
(*                                                                         *)
(* Text is modelled as a sequence of characters, each a string, so that the *)
(* string transforms of the handlers (str.replace, str.strip, json.loads,  *)
(* f-string formatting) are computed character by character.               *)
(***************************************************************************)
EXTENDS Integers, Sequences, FiniteSets

VARIABLES
    impl,      \* "app" (src/app.py) or "server" (src/server.py): the process that runs
    envKey,    \* os.environ["GEMINI_API_KEY"] of the process, <<>> when unset or empty
    pc,        \* position of the request handler: "idle", "calling", "done"
    request,   \* the body of the POST request being handled
    calls,     \* urlopen calls made while handling the request
    outbound,  \* the request handed to urlopen: credential, mime type, image data
    upstream,  \* what urlopen produced for the request
    emitted,   \* responses sent to the client for the request, in order
    nIn,       \* normalisation run: the input text
    nOut,      \* normalisation run: the text after one normalisation
    nTwice,    \* normalisation run: the text after a second normalisation
    nStage     \* normalisation run: normalisations applied so far

vars == <<impl, envKey, pc, request, calls, outbound, upstream, emitted,
          nIn, nOut, nTwice, nStage>>

relayVars == <<impl, envKey, pc, request, calls, outbound, upstream, emitted>>
normVars == <<nIn, nOut, nTwice, nStage>>

(***************************************************************************)
(* Bounds of the model.                                                    *)
(***************************************************************************)
\* tokens concatenated into an input of the normalisation run
MaxTokens == 4
\* elements of a JSON array the upstream model returns
MaxRows == 2

(***************************************************************************)
(* Python str operations.                                                  *)
(***************************************************************************)
\* characters str.strip() removes (those that occur in the modelled texts)
PyWhitespace == {" ", "\n", "\t", "\r"}

StartsWith(s, p) == Len(s) >= Len(p) /\ SubSeq(s, 1, Len(p)) = p

\* old in s
Occurs(s, old) == \E i \in 1..(Len(s) - Len(old) + 1) : SubSeq(s, i, i + Len(old) - 1) = old

\* s.find(old), counted from 1, for an old that occurs in s
Find(s, old) ==
    CHOOSE j \in 1..(Len(s) - Len(old) + 1) :
        /\ SubSeq(s, j, j + Len(old) - 1) = old
        /\ \A x \in 1..(j - 1) : SubSeq(s, x, x + Len(old) - 1) # old

\* s.replace(old, ""): every non-overlapping occurrence, scanning left to right
RECURSIVE StrRemove(_, _)
StrRemove(s, old) ==
    IF ~Occurs(s, old) THEN s
    ELSE SubSeq(s, 1, Find(s, old) - 1)
         \o StrRemove(SubSeq(s, Find(s, old) + Len(old), Len(s)), old)

\* s.strip(), for an s that is not all whitespace: the first and the last character kept
StripFirst(s) ==
    CHOOSE j \in 1..Len(s) : s[j] \notin PyWhitespace /\ \A x \in 1..(j - 1) : s[x] \in PyWhitespace
StripLast(s) ==
    CHOOSE j \in 1..Len(s) : s[j] \notin PyWhitespace /\ \A x \in (j + 1)..Len(s) : s[x] \in PyWhitespace

\* s.strip()
Strip(s) ==
    IF \A x \in 1..Len(s) : s[x] \in PyWhitespace THEN <<>>
    ELSE SubSeq(s, StripFirst(s), StripLast(s))

\* the backquote character, which a TLA+ string literal cannot hold
BT == "backquote"

FENCE_JSON == <<BT, BT, BT, "j", "s", "o", "n">>
FENCE == <<BT, BT, BT>>

\* the normalisation with the second replace left out
CleanJsonFenceOnly(text) == Strip(StrRemove(text, FENCE_JSON))

\* clean = text.replace("```json", "").replace("```", "").strip()
Clean(text) == Strip(StrRemove(StrRemove(text, FENCE_JSON), FENCE))

(***************************************************************************)
(* JSON values, as json.loads builds them: None, int, str, list, dict.     *)
(* A dict is the sequence of its <<key, value>> members in insertion order. *)
(***************************************************************************)
JNull == [t |-> "null"]
JNum(n) == [t |-> "num", n |-> n]
JStr(s) == [t |-> "str", s |-> s]
JArr(a) == [t |-> "arr", a |-> a]
JObj(o) == [t |-> "obj", o |-> o]

IsList(v) == v.t = "arr"
IsDict(v) == v.t = "obj"

HasKey(o, k) == \E i \in 1..Len(o) : o[i][1] = k
KeyIndex(o, k) == CHOOSE i \in 1..Len(o) : o[i][1] = k

\* d[k] = v on the member sequence: a repeated key keeps its place, the last value wins
DictSet(o, k, v) ==
    IF HasKey(o, k)
    THEN [o EXCEPT ![KeyIndex(o, k)] = <<k, v>>]
    ELSE Append(o, <<k, v>>)

Digits == {"0", "1", "2", "3", "4", "5", "6", "7", "8", "9"}
DigitChars == <<"0", "1", "2", "3", "4", "5", "6", "7", "8", "9">>
DigitVal(c) == (CHOOSE i \in 1..10 : DigitChars[i] = c) - 1

\* str(n) for an integer
RECURSIVE DecNat(_)
DecNat(n) == IF n < 10 THEN <<DigitChars[n + 1]>> ELSE DecNat(n \div 10) \o <<DigitChars[(n % 10) + 1]>>
Dec(n) == IF n < 0 THEN <<"-">> \o DecNat(0 - n) ELSE DecNat(n)

(***************************************************************************)
(* json.loads on a str, for documents made of arrays, objects, strings,    *)
(* integers and null.  A result is [ok |-> TRUE, val, end] (end: the index *)
(* of the next character, counted from 1) or [ok |-> FALSE, msg, pos]      *)
(* (pos: JSONDecodeError.pos, counted from 0).  Fractions, exponents,      *)
(* true, false and \uXXXX escapes are not modelled; no modelled text holds *)
(* them.                                                                   *)
(***************************************************************************)
\* the messages of json.JSONDecodeError and the parts of its str()
JE ==
    [ EXPECTING_VALUE |->
        <<"E","x","p","e","c","t","i","n","g"," ","v","a","l","u","e">>,
      EXTRA_DATA |->
        <<"E","x","t","r","a"," ","d","a","t","a">>,
      UNTERMINATED_STRING |->
        <<"U","n","t","e","r","m","i","n","a","t","e","d"," ","s","t","r","i","n","g"," ","s","t","a","r","t","i","n","g"," ","a","t">>,
      EXPECTING_COMMA |->
        <<"E","x","p","e","c","t","i","n","g"," ","'",",","'"," ","d","e","l","i","m","i","t","e","r">>,
      EXPECTING_PROPERTY_NAME |->
        <<"E","x","p","e","c","t","i","n","g"," ","p","r","o","p","e","r","t","y"," ","n","a","m","e"," ","e","n","c","l","o","s","e","d"," ","i","n"," ","d","o","u","b","l","e"," ","q","u","o","t","e","s">>,
      EXPECTING_COLON |->
        <<"E","x","p","e","c","t","i","n","g"," ","'",":","'"," ","d","e","l","i","m","i","t","e","r">>,
      INVALID_CONTROL |->
        <<"I","n","v","a","l","i","d"," ","c","o","n","t","r","o","l"," ","c","h","a","r","a","c","t","e","r"," ","a","t">>,
      INVALID_ESCAPE |->
        <<"I","n","v","a","l","i","d"," ","\\","e","s","c","a","p","e">>,
      LINE |->
        <<":"," ","l","i","n","e"," ">>,
      COLUMN |->
        <<" ","c","o","l","u","m","n"," ">>,
      CHAR |->
        <<" ","(","c","h","a","r"," ">> ]

JsonWhitespace == {" ", "\t", "\n", "\r"}
ControlChars == {"\t", "\n", "\r"}

ParseOk(v, e) == [ok |-> TRUE, val |-> v, end |-> e]
ParseFail(m, p) == [ok |-> FALSE, msg |-> m, pos |-> p]

CharAt(s, i) == IF i >= 1 /\ i <= Len(s) THEN s[i] ELSE ""

\* WHITESPACE.match(s, i).end(): the index of the first character from i on that is
\* no whitespace
SkipWS(s, i) ==
    IF i > Len(s) THEN i
    ELSE CHOOSE j \in i..(Len(s) + 1) :
            /\ (j = Len(s) + 1 \/ s[j] \notin JsonWhitespace)
            /\ \A x \in i..(j - 1) : s[x] \in JsonWhitespace

\* the character an escape letter stands for, "" when the letter is no escape
Unescape(c) ==
    CASE c = "\"" -> "\""
      [] c = "\\" -> "\\"
      [] c = "/" -> "/"
      [] c = "n" -> "\n"
      [] c = "t" -> "\t"
      [] c = "r" -> "\r"
      [] OTHER -> ""

\* py_scanstring.  A character of a string is escaped when an odd number of
\* backslashes precedes it inside the string (i: the index after the opening quote)
Backslashes(s, i, j) ==
    CHOOSE r \in 0..(j - i) :
        /\ \A x \in 1..r : s[j - x] = "\\"
        /\ (r = j - i \/ s[j - r - 1] # "\\")
Escaped(s, i, j) == j > i /\ s[j - 1] = "\\" /\ Backslashes(s, i, j) % 2 = 1

\* the scan of a string stops at an unescaped quote, control character or backslash
\* that starts no escape
StringStop(s, i, j) ==
    /\ s[j] \in ControlChars \cup {"\"", "\\"}
    /\ ~Escaped(s, i, j)
    /\ (s[j] = "\\" => (j = Len(s) \/ Unescape(s[j + 1]) = ""))

\* the characters of s at the indices kept, an escaped one decoded
Decoded(s, i, kept) ==
    [x \in 1..Len(kept) |-> IF Escaped(s, i, kept[x]) THEN Unescape(s[kept[x]]) ELSE s[kept[x]]]

\* the characters of s from i up to k, without the backslashes that start an escape
StringChars(s, i, k) ==
    Decoded(s, i, SelectSeq([y \in 1..(k - i) |-> i + y - 1],
                            LAMBDA j : s[j] # "\\" \/ Escaped(s, i, j)))

\* the string that starts after the opening quote at i - 1, its scan stopping at k
ScanStringTo(s, i, k) ==
    IF k > Len(s) THEN ParseFail(JE.UNTERMINATED_STRING, i - 2)
    ELSE IF s[k] = "\"" THEN ParseOk(JStr(StringChars(s, i, k)), k + 1)
    ELSE IF s[k] = "\\" /\ k = Len(s) THEN ParseFail(JE.UNTERMINATED_STRING, i - 2)
    ELSE IF s[k] = "\\" THEN ParseFail(JE.INVALID_ESCAPE, k - 1)
    ELSE ParseFail(JE.INVALID_CONTROL, k - 1)

\* the index at which the scan of the string that starts at i stops; past the end of s
\* when it finds no stop
StringEnd(s, i) ==
    IF i > Len(s) THEN i
    ELSE CHOOSE k \in i..(Len(s) + 1) :
            /\ (k = Len(s) + 1 \/ StringStop(s, i, k))
            /\ \A x \in i..(k - 1) : ~StringStop(s, i, x)

ScanString(s, i) == ScanStringTo(s, i, StringEnd(s, i))

RECURSIVE ScanDigits(_, _, _)
ScanDigits(s, i, n) ==
    IF CharAt(s, i) \in Digits THEN ScanDigits(s, i + 1, 10 * n + DigitVal(s[i])) ELSE ParseOk(JNum(n), i)

\* NUMBER_RE, integer part: 0, or a digit run that does not start with 0
ScanNat(s, i) == IF s[i] = "0" THEN ParseOk(JNum(0), i + 1) ELSE ScanDigits(s, i, 0)

Negated(r) == ParseOk(JNum(0 - r.val.n), r.end)

RECURSIVE ScanOnce(_, _)
RECURSIVE ArrayItems(_, _, _)
RECURSIVE ObjectMembers(_, _, _)

\* JSONArray, after an item whose scan gave r: the bracket or comma at k
ArrayAfterItem(s, acc, k) ==
    IF CharAt(s, k) = "]" THEN ParseOk(JArr(acc), k + 1)
    ELSE IF CharAt(s, k) # "," THEN ParseFail(JE.EXPECTING_COMMA, k - 1)
    ELSE ArrayItems(s, SkipWS(s, k + 1), acc)

ArrayItem(s, acc, r) == IF ~r.ok THEN r ELSE ArrayAfterItem(s, Append(acc, r.val), SkipWS(s, r.end))

\* JSONArray's loop: the items from index j on, after the items acc
ArrayItems(s, j, acc) == ArrayItem(s, acc, ScanOnce(s, j))

ArrayFrom(s, j) == IF CharAt(s, j) = "]" THEN ParseOk(JArr(<<>>), j + 1) ELSE ArrayItems(s, j, <<>>)

\* JSONArray, from the index after the opening bracket
JSONArray(s, i) == ArrayFrom(s, SkipWS(s, i))

\* JSONObject, after a member: the next key's opening quote at e
ObjectNextKey(s, acc, e) ==
    IF CharAt(s, e) # "\"" THEN ParseFail(JE.EXPECTING_PROPERTY_NAME, e - 1)
    ELSE ObjectMembers(s, e, acc)

\* JSONObject, after a member: the brace or comma at d
ObjectAfterMember(s, acc, d) ==
    IF CharAt(s, d) = "}" THEN ParseOk(JObj(acc), d + 1)
    ELSE IF CharAt(s, d) # "," THEN ParseFail(JE.EXPECTING_COMMA, d - 1)
    ELSE ObjectNextKey(s, acc, SkipWS(s, d + 1))

ObjectValue(s, acc, key, rv) ==
    IF ~rv.ok THEN rv ELSE ObjectAfterMember(s, DictSet(acc, key, rv.val), SkipWS(s, rv.end))

\* JSONObject, after a key: the colon at c, then the value
ObjectColon(s, acc, key, c) ==
    IF CharAt(s, c) # ":" THEN ParseFail(JE.EXPECTING_COLON, c - 1)
    ELSE ObjectValue(s, acc, key, ScanOnce(s, SkipWS(s, c + 1)))

ObjectKey(s, acc, rk) == IF ~rk.ok THEN rk ELSE ObjectColon(s, acc, rk.val.s, SkipWS(s, rk.end))

\* JSONObject's loop: the members from the opening quote of a key at index q
ObjectMembers(s, q, acc) == ObjectKey(s, acc, ScanString(s, q + 1))

ObjectFrom(s, j) ==
    IF CharAt(s, j) = "}" THEN ParseOk(JObj(<<>>), j + 1)
    ELSE IF CharAt(s, j) # "\"" THEN ParseFail(JE.EXPECTING_PROPERTY_NAME, j - 1)
    ELSE ObjectMembers(s, j, <<>>)

\* JSONObject, from the index after the opening brace
JSONObject(s, i) == ObjectFrom(s, SkipWS(s, i))

\* scan_once at index i; a StopIteration becomes "Expecting value" at that index
ScanOnce(s, i) ==
    CASE CharAt(s, i) = "\"" -> ScanString(s, i + 1)
      [] CharAt(s, i) = "{" -> JSONObject(s, i + 1)
      [] CharAt(s, i) = "[" -> JSONArray(s, i + 1)
      [] CharAt(s, i) = "n" /\ StartsWith(SubSeq(s, i, Len(s)), <<"n", "u", "l", "l">>) ->
            ParseOk(JNull, i + 4)
      [] CharAt(s, i) \in Digits -> ScanNat(s, i)
      [] CharAt(s, i) = "-" /\ CharAt(s, i + 1) \in Digits -> Negated(ScanNat(s, i + 1))
      [] OTHER -> ParseFail(JE.EXPECTING_VALUE, i - 1)

LoadsEnd(s, r, e) == IF e <= Len(s) THEN ParseFail(JE.EXTRA_DATA, e - 1) ELSE r
LoadsValue(s, r) == IF ~r.ok THEN r ELSE LoadsEnd(s, r, SkipWS(s, r.end))

\* json.loads(s): one value, whitespace around it, nothing after it
JsonLoads(s) == LoadsValue(s, ScanOnce(s, SkipWS(s, 1)))

\* str(e) of a JSONDecodeError on document doc: "msg: line L column C (char P)"
NewlinesBefore(doc, pos) == {q \in 1..pos : doc[q] = "\n"}
LineNo(doc, pos) == Cardinality(NewlinesBefore(doc, pos)) + 1
ColNo(doc, pos) ==
    IF NewlinesBefore(doc, pos) = {} THEN pos + 1
    ELSE pos + 1 - (CHOOSE q \in NewlinesBefore(doc, pos) : \A x \in NewlinesBefore(doc, pos) : x <= q)
JSONDecodeErrorStr(doc, r) ==
    r.msg \o JE.LINE \o Dec(LineNo(doc, r.pos)) \o JE.COLUMN \o Dec(ColNo(doc, r.pos))
          \o JE.CHAR \o Dec(r.pos) \o <<")">>

(***************************************************************************)
(* json.dumps with compact separators: the text of a JSON value.           *)
(***************************************************************************)
EscapeChar(c) ==
    CASE c = "\"" -> <<"\\", "\"">>
      [] c = "\\" -> <<"\\", "\\">>
      [] c = "\n" -> <<"\\", "n">>
      [] c = "\t" -> <<"\\", "t">>
      [] c = "\r" -> <<"\\", "r">>
      [] OTHER -> <<c>>

RECURSIVE EscapeStr(_)
EscapeStr(s) ==
    IF s = <<>> THEN <<>>
    ELSE IF Len(s) = 1 THEN EscapeChar(s[1])
    ELSE EscapeStr(SubSeq(s, 1, Len(s) \div 2)) \o EscapeStr(SubSeq(s, (Len(s) \div 2) + 1, Len(s)))

Quoted(s) == <<"\"">> \o EscapeStr(s) \o <<"\"">>

RECURSIVE Dumps(_)
RECURSIVE DumpItems(_)
RECURSIVE DumpMembers(_)
DumpItems(a) ==
    IF a = <<>> THEN <<>>
    ELSE IF Len(a) = 1 THEN Dumps(a[1])
    ELSE Dumps(a[1]) \o <<",">> \o DumpItems(Tail(a))
DumpMembers(o) ==
    IF o = <<>> THEN <<>>
    ELSE IF Len(o) = 1 THEN Quoted(o[1][1]) \o <<":">> \o Dumps(o[1][2])
    ELSE Quoted(o[1][1]) \o <<":">> \o Dumps(o[1][2]) \o <<",">> \o DumpMembers(Tail(o))
Dumps(v) ==
    CASE v.t = "null" -> <<"n", "u", "l", "l">>
      [] v.t = "num" -> Dec(v.n)
      [] v.t = "str" -> Quoted(v.s)
      [] v.t = "arr" -> <<"[">> \o DumpItems(v.a) \o <<"]">>
      [] v.t = "obj" -> <<"{">> \o DumpMembers(v.o) \o <<"}">>

(***************************************************************************)
(* Python values and exceptions.                                           *)
(***************************************************************************)
\* texts of the Python runtime: type names, str(None), and the str() of the
\* exceptions the handlers meet (AttributeError, IndexError, TypeError, the BadRequest
\* of request.get_json(), UnicodeDecodeError, TimeoutError, BrokenPipeError)
PyErr ==
    [ ATTR_ERR_HEAD |->
        <<"'">>,
      ATTR_ERR_TAIL |->
        <<"'"," ","o","b","j","e","c","t"," ","h","a","s"," ","n","o"," ","a","t","t","r","i","b","u","t","e"," ","'","g","e","t","'">>,
      ATTR_ERR_REPLACE_TAIL |->
        <<"'"," ","o","b","j","e","c","t"," ","h","a","s"," ","n","o"," ","a","t","t","r","i","b","u","t","e"," ","'","r","e","p","l","a","c","e","'">>,
      MSG_INDEX_ERROR |->
        <<"l","i","s","t"," ","i","n","d","e","x"," ","o","u","t"," ","o","f"," ","r","a","n","g","e">>,
      MSG_STR_INDEX_ERROR |->
        <<"s","t","r","i","n","g"," ","i","n","d","e","x"," ","o","u","t"," ","o","f"," ","r","a","n","g","e">>,
      MSG_NOT_SUBSCRIPTABLE |->
        <<"'"," ","o","b","j","e","c","t"," ","i","s"," ","n","o","t"," ","s","u","b","s","c","r","i","p","t","a","b","l","e">>,
      MSG_LIST_INDICES |->
        <<"l","i","s","t"," ","i","n","d","i","c","e","s"," ","m","u","s","t"," ","b","e"," ","i","n","t","e","g","e","r","s"," ","o","r"," ","s","l","i","c","e","s",","," ","n","o","t"," ","s","t","r">>,
      MSG_STR_INDICES |->
        <<"s","t","r","i","n","g"," ","i","n","d","i","c","e","s"," ","m","u","s","t"," ","b","e"," ","i","n","t","e","g","e","r","s",","," ","n","o","t"," ","'","s","t","r","'">>,
      MSG_BAD_REQUEST |->
        <<"4","0","0"," ","B","a","d"," ","R","e","q","u","e","s","t",":"," ","T","h","e"," ","b","r","o","w","s","e","r"," ","(","o","r"," ","p","r","o","x","y",")"," ","s","e","n","t"," ","a"," ","r","e","q","u","e","s","t"," ","t","h","a","t"," ","t","h","i","s"," ","s","e","r","v","e","r"," ","c","o","u","l","d"," ","n","o","t"," ","u","n","d","e","r","s","t","a","n","d",".">>,
      MSG_UNICODE_DECODE |->
        <<"'","u","t","f","-","8","'"," ","c","o","d","e","c"," ","c","a","n","'","t"," ","d","e","c","o","d","e"," ","b","y","t","e"," ","0","x","f","f"," ","i","n"," ","p","o","s","i","t","i","o","n"," ","0",":"," ","i","n","v","a","l","i","d"," ","s","t","a","r","t"," ","b","y","t","e">>,
      MSG_READ_TIMEOUT |->
        <<"T","h","e"," ","r","e","a","d"," ","o","p","e","r","a","t","i","o","n"," ","t","i","m","e","d"," ","o","u","t">>,
      MSG_BROKEN_PIPE |->
        <<"[","E","r","r","n","o"," ","3","2","]"," ","B","r","o","k","e","n"," ","p","i","p","e">>,
      T_LIST |->
        <<"l","i","s","t">>,
      T_STR |->
        <<"s","t","r">>,
      T_INT |->
        <<"i","n","t">>,
      T_NONE |->
        <<"N","o","n","e","T","y","p","e">>,
      T_DICT |->
        <<"d","i","c","t">>,
      PY_NONE |->
        <<"N","o","n","e">> ]

\* type(v).__name__
PyTypeName(v) ==
    CASE v.t = "null" -> PyErr.T_NONE
      [] v.t = "num" -> PyErr.T_INT
      [] v.t = "str" -> PyErr.T_STR
      [] v.t = "arr" -> PyErr.T_LIST
      [] v.t = "obj" -> PyErr.T_DICT

\* bool(v)
PyTruthy(v) ==
    CASE v.t = "null" -> FALSE
      [] v.t = "num" -> v.n # 0
      [] v.t = "str" -> v.s # <<>>
      [] v.t = "arr" -> v.a # <<>>
      [] v.t = "obj" -> v.o # <<>>

\* str(v), as an f-string formats it; lists and dicts are formatted by no modelled run
PyStr(v) ==
    CASE v.t = "str" -> v.s
      [] v.t = "num" -> Dec(v.n)
      [] v.t = "null" -> PyErr.PY_NONE

\* d.get(k, default) on a dict
DictGet(d, k, default) == IF HasKey(d.o, k) THEN d.o[KeyIndex(d.o, k)][2] ELSE default

\* the result of evaluating an expression: a value, or an exception with its str()
Value(v) == [exc |-> "none", val |-> v, msg |-> <<>>]
Raise(cls, m) == [exc |-> cls, val |-> JNull, msg |-> m]


\* str(AttributeError) of v.get on a value that is no dict
AttributeErrorGet(v) == PyErr.ATTR_ERR_HEAD \o PyTypeName(v) \o PyErr.ATTR_ERR_TAIL
\* str(AttributeError) of v.replace on a value that is no str
AttributeErrorReplace(v) == PyErr.ATTR_ERR_HEAD \o PyTypeName(v) \o PyErr.ATTR_ERR_REPLACE_TAIL

\* r[k] for a str key k
GetItem(r, k) ==
    IF r.exc # "none" THEN r
    ELSE CASE r.val.t = "obj" ->
                IF HasKey(r.val.o, k) THEN Value(DictGet(r.val, k, JNull))
                ELSE Raise("KeyError", <<"'">> \o k \o <<"'">>)
           [] r.val.t = "arr" -> Raise("TypeError", PyErr.MSG_LIST_INDICES)
           [] r.val.t = "str" -> Raise("TypeError", PyErr.MSG_STR_INDICES)
           [] OTHER -> Raise("TypeError", <<"'">> \o PyTypeName(r.val) \o PyErr.MSG_NOT_SUBSCRIPTABLE)

\* r[0]
GetFirst(r) ==
    IF r.exc # "none" THEN r
    ELSE CASE r.val.t = "arr" ->
                IF r.val.a # <<>> THEN Value(r.val.a[1]) ELSE Raise("IndexError", PyErr.MSG_INDEX_ERROR)
           [] r.val.t = "obj" -> Raise("KeyError", <<"0">>)
           [] r.val.t = "str" ->
                IF r.val.s # <<>> THEN Value(JStr(<<r.val.s[1]>>))
                ELSE Raise("IndexError", PyErr.MSG_STR_INDEX_ERROR)
           [] OTHER -> Raise("TypeError", <<"'">> \o PyTypeName(r.val) \o PyErr.MSG_NOT_SUBSCRIPTABLE)

(***************************************************************************)
(* Texts of the two handlers.                                              *)
(***************************************************************************)
K_APIKEY ==
    <<"a","p","i","K","e","y">>
K_IMAGEB64 ==
    <<"i","m","a","g","e","B","6","4">>
K_MIMETYPE ==
    <<"m","i","m","e","T","y","p","e">>
MIME_JPEG ==
    <<"i","m","a","g","e","/","j","p","e","g">>
K_CANDIDATES ==
    <<"c","a","n","d","i","d","a","t","e","s">>
K_CONTENT ==
    <<"c","o","n","t","e","n","t">>
K_PARTS ==
    <<"p","a","r","t","s">>
K_TEXT ==
    <<"t","e","x","t">>
K_ERROR ==
    <<"e","r","r","o","r">>
K_MESSAGE ==
    <<"m","e","s","s","a","g","e">>
MSG_INVALID_JSON_BODY ==
    <<"I","n","v","a","l","i","d"," ","J","S","O","N"," ","b","o","d","y">>
MSG_KEY_NOT_CONFIGURED ==
    <<"G","e","m","i","n","i"," ","A","P","I"," ","k","e","y"," ","n","o","t"," ","c","o","n","f","i","g","u","r","e","d","."," ","S","e","t"," ","G","E","M","I","N","I","_","A","P","I","_","K","E","Y"," ","e","n","v","i","r","o","n","m","e","n","t"," ","v","a","r","i","a","b","l","e"," ","o","n"," ","R","e","n","d","e","r",".">>
MSG_NO_IMAGE ==
    <<"N","o"," ","i","m","a","g","e"," ","d","a","t","a"," ","r","e","c","e","i","v","e","d">>
MSG_MISSING_APIKEY ==
    <<"M","i","s","s","i","n","g"," ","a","p","i","K","e","y">>
MSG_MISSING_IMAGE ==
    <<"M","i","s","s","i","n","g"," ","i","m","a","g","e","B","6","4">>
PFX_GEMINI_API_ERROR ==
    <<"G","e","m","i","n","i"," ","A","P","I"," ","e","r","r","o","r",":"," ">>
PFX_COULD_NOT_REACH ==
    <<"C","o","u","l","d"," ","n","o","t"," ","r","e","a","c","h"," ","G","e","m","i","n","i"," ","A","P","I",":"," ">>
PFX_FAILED_TO_PARSE ==
    <<"F","a","i","l","e","d"," ","t","o"," ","p","a","r","s","e"," ","G","e","m","i","n","i"," ","r","e","s","p","o","n","s","e",":"," ">>

(***************************************************************************)
(* Responses.                                                              *)
(***************************************************************************)
\* jsonify({"rows": rows}) / the 200 branch of do_POST
RowsResponse(rows) == [status |-> 200, kind |-> "rows", rows |-> rows, error |-> <<>>]
\* jsonify({"error": message}), code / Handler._error(code, message)
ErrorResponse(code, message) == [status |-> code, kind |-> "error", rows |-> JNull, error |-> message]
\* the 500 page Flask answers with when the view function raises
FlaskErrorPage == [status |-> 500, kind |-> "page", rows |-> JNull, error |-> <<>>]

\* a response handed to the client connection; written: whether the write went through
Sent(resp, ok) ==
    [status |-> resp.status, kind |-> resp.kind, rows |-> resp.rows, error |-> resp.error,
     written |-> ok]

(***************************************************************************)
(* The part of both handlers that runs on what urlopen produced.           *)
(***************************************************************************)
\* isinstance(rows, dict) in the place of not isinstance(rows, list)
RowsOfDictOnly(v) == IF IsDict(v) THEN JArr(<<v>>) ELSE v

\* if not isinstance(rows, list): rows = [rows]
RowsOf(v) == IF ~IsList(v) THEN JArr(<<v>>) ELSE v

\* result["candidates"][0]["content"]["parts"][0]["text"]
EnvelopeText(result) ==
    GetItem(GetFirst(GetItem(GetItem(GetFirst(GetItem(Value(result), K_CANDIDATES)),
                                     K_CONTENT), K_PARTS)), K_TEXT)

\* rows = json.loads(clean), then the wrapping of a value that is no list
RowsOfParsed(clean, rows) ==
    IF ~rows.ok THEN Raise("JSONDecodeError", JSONDecodeErrorStr(clean, rows))
    ELSE Value(RowsOf(rows.val))

RowsOfClean(clean) == RowsOfParsed(clean, JsonLoads(clean))

\* clean = text.replace(...).replace(...).strip(), for the text the envelope gave
RowsOfText(text) ==
    IF text.exc # "none" THEN text
    ELSE IF text.val.t # "str" THEN Raise("AttributeError", AttributeErrorReplace(text.val))
    ELSE RowsOfClean(Clean(text.val.s))

\* result = json.loads(resp.read()), then the text of the first candidate
RowsOfResult(body, result) ==
    IF ~result.ok THEN Raise("JSONDecodeError", JSONDecodeErrorStr(body, result))
    ELSE RowsOfText(EnvelopeText(result.val))

\* the body of the with block: the rows, or the exception it raises
ExtractRows(body) == RowsOfResult(body, JsonLoads(body))

\* .get("error", {}).get("message", err_body) on the parsed error body
MessageOfError(err_body, err) ==
    IF ~IsDict(err) THEN JStr(err_body) ELSE DictGet(err, K_MESSAGE, JStr(err_body))

MessageOfParsed(err_body, j) ==
    IF ~j.ok THEN JStr(err_body)
    ELSE IF ~IsDict(j.val) THEN JStr(err_body)
    ELSE MessageOfError(err_body, DictGet(j.val, K_ERROR, JObj(<<>>)))

\* msg of the HTTPError handler: the envelope's error.message, else the body
UpstreamMessage(err_body) == MessageOfParsed(err_body, JsonLoads(err_body))

\* the URLError clause answering 500 with the bare reason
UnreachableAs500(reason) == ErrorResponse(500, reason)

\* except urllib.error.URLError
UnreachableResponse(reason) == ErrorResponse(502, PFX_COULD_NOT_REACH \o reason)

\* the parse clause answering with the bare str(e)
ParseFailureBare(msg) == ErrorResponse(500, msg)

\* except (json.JSONDecodeError, KeyError, IndexError)
ParseFailureResponse(msg) == ErrorResponse(500, PFX_FAILED_TO_PARSE \o msg)

\* except urllib.error.HTTPError, once the body is decoded
RejectedResponse(code, err_body) ==
    ErrorResponse(code, PFX_GEMINI_API_ERROR \o PyStr(UpstreamMessage(err_body)))

\* except Exception
OtherFailureResponse(msg) == ErrorResponse(500, msg)

\* what the handler does with the outcome o of urlopen: the response it decides on,
\* and how: "return" inside the try block, "handler" from an except clause of the call,
\* "outer" from the last except Exception clause, "raise" when an exception leaves an
\* except clause
ReplyOfRows(r) ==
    IF r.exc = "none" THEN [how |-> "return", resp |-> RowsResponse(r.val)]
    ELSE IF r.exc \in {"JSONDecodeError", "KeyError", "IndexError"}
    THEN [how |-> "handler", resp |-> ParseFailureResponse(r.msg)]
    ELSE [how |-> "outer", resp |-> OtherFailureResponse(r.msg)]

Reply(o) ==
    CASE o.kind = "ok" -> ReplyOfRows(ExtractRows(o.body))
      [] o.kind = "http_error" ->
            IF o.utf8 THEN [how |-> "handler", resp |-> RejectedResponse(o.code, o.body)]
            ELSE [how |-> "raise", resp |-> OtherFailureResponse(PyErr.MSG_UNICODE_DECODE)]
      [] o.kind = "url_error" -> [how |-> "handler", resp |-> UnreachableResponse(o.reason)]
      [] o.kind = "timeout" -> [how |-> "outer", resp |-> OtherFailureResponse(PyErr.MSG_READ_TIMEOUT)]

(***************************************************************************)
(* The part of each handler that runs before urlopen.  A result says       *)
(* whether urlopen is called, and otherwise the response and how it is     *)
(* decided ("return" inside the try block, "outer" from except Exception). *)
(***************************************************************************)
\* gemini_payload and url: what the call carries
Outbound(api_key, mime_type, image_b64) ==
    [key |-> PyStr(api_key), mime_type |-> mime_type, data |-> image_b64]

NoCall(how, resp) == [call |-> FALSE, how |-> how, resp |-> resp, out |-> <<>>]
Call(out) == [call |-> TRUE, how |-> "return", resp |-> <<>>, out |-> out]

\* the checks of src/app.py on the credential and the image, then the call
AppCheckFields(api_key, image_b64, mime_type) ==
    IF ~PyTruthy(api_key) THEN NoCall("return", ErrorResponse(400, MSG_KEY_NOT_CONFIGURED))
    ELSE IF ~PyTruthy(image_b64) THEN NoCall("return", ErrorResponse(400, MSG_NO_IMAGE))
    ELSE Call(Outbound(api_key, mime_type, image_b64))

\* os.environ.get("GEMINI_API_KEY") or payload.get("apiKey", "")
AppApiKey(payload, env) ==
    IF env # <<>> THEN JStr(env) ELSE DictGet(payload, K_APIKEY, JStr(<<>>))

AppCheckPayload(payload, env) ==
    IF ~PyTruthy(payload) THEN NoCall("return", ErrorResponse(400, MSG_INVALID_JSON_BODY))
    ELSE IF ~IsDict(payload) THEN NoCall("outer", OtherFailureResponse(AttributeErrorGet(payload)))
    ELSE AppCheckFields(AppApiKey(payload, env),
                        DictGet(payload, K_IMAGEB64, JStr(<<>>)),
                        DictGet(payload, K_MIMETYPE, JStr(MIME_JPEG)))

AppCheckParsed(parsed, env) ==
    IF ~parsed.ok THEN NoCall("outer", OtherFailureResponse(PyErr.MSG_BAD_REQUEST))
    ELSE AppCheckPayload(parsed.val, env)

\* gemini_proxy of src/app.py, down to the call of urlopen
AppPrecheck(body, env) == AppCheckParsed(JsonLoads(body), env)

\* the checks of src/server.py on the credential and the image, then the call
ServerCheckFields(api_key, image_b64, mime_type) ==
    IF ~PyTruthy(api_key) THEN NoCall("return", ErrorResponse(400, MSG_MISSING_APIKEY))
    ELSE IF ~PyTruthy(image_b64) THEN NoCall("return", ErrorResponse(400, MSG_MISSING_IMAGE))
    ELSE Call(Outbound(api_key, mime_type, image_b64))

ServerCheckParsed(body, parsed) ==
    IF ~parsed.ok THEN NoCall("outer", OtherFailureResponse(JSONDecodeErrorStr(body, parsed)))
    ELSE IF ~IsDict(parsed.val)
    THEN NoCall("outer", OtherFailureResponse(AttributeErrorGet(parsed.val)))
    ELSE ServerCheckFields(DictGet(parsed.val, K_APIKEY, JStr(<<>>)),
                           DictGet(parsed.val, K_IMAGEB64, JStr(<<>>)),
                           DictGet(parsed.val, K_MIMETYPE, JStr(MIME_JPEG)))

\* Handler.do_POST of src/server.py, down to the call of urlopen
ServerPrecheck(body) == ServerCheckParsed(body, JsonLoads(body))

(***************************************************************************)
(* What reaches the client.                                                *)
(***************************************************************************)
\* src/app.py: the view function returns one response, which Flask sends; an exception
\* that leaves the view function makes Flask send its 500 page
AppEmit(how, resp) == IF how = "raise" THEN <<Sent(FlaskErrorPage, TRUE)>> ELSE <<Sent(resp, TRUE)>>

\* src/server.py: the handler writes the response itself.  writes is how the client
\* connection takes the writes: "ok", "fail" (every write raises), "fail_once" (the
\* first response's write raises, a later one goes through).  A write that raises
\* inside the outer try block, or an exception leaving an except clause of the inner
\* try block, ends in except Exception, which calls _error(500, str(e)).
ServerEmit(how, resp, writes) ==
    CASE how = "raise" -> <<Sent(resp, writes = "ok")>>
      [] how = "outer" -> <<Sent(resp, writes = "ok")>>
      [] writes = "ok" -> <<Sent(resp, TRUE)>>
      [] OTHER -> <<Sent(resp, FALSE),
                    Sent(OtherFailureResponse(PyErr.MSG_BROKEN_PIPE), writes = "fail_once")>>

Emit(how, resp, writes) ==
    IF impl = "app" THEN AppEmit(how, resp) ELSE ServerEmit(how, resp, writes)

Writes == IF impl = "app" THEN {"ok"} ELSE {"ok", "fail", "fail_once"}

(***************************************************************************)
(* Inputs: request bodies and the outcomes of urlopen.                     *)
(***************************************************************************)
\* texts of the inputs: credentials, image data, keys and values of rows and of
\* upstream bodies, prose, and the reasons of URLError
Sample ==
    [ KEY_ENV |->
        <<"e","n","v","-","k","e","y">>,
      KEY_REQ |->
        <<"r","e","q","-","k","e","y">>,
      IMAGE_DATA |->
        <<"a","W","1","n">>,
      MIME_PNG |->
        <<"i","m","a","g","e","/","p","n","g">>,
      BODY_NOT_JSON |->
        <<"i","m","a","g","e","B","6","4","=","a","W","1","n">>,
      K_VARIETY |->
        <<"v","a","r","i","e","t","y">>,
      K_MRP |->
        <<"m","r","p">>,
      K_CODE |->
        <<"c","o","d","e">>,
      K_FINISH |->
        <<"f","i","n","i","s","h","R","e","a","s","o","n">>,
      S_OATS |->
        <<"O","a","t","s">>,
      S_405 |->
        <<"4","0","5">>,
      S_SAFETY |->
        <<"S","A","F","E","T","Y">>,
      S_RATE_LIMITED |->
        <<"r","a","t","e"," ","l","i","m","i","t","e","d">>,
      S_DENIED |->
        <<"d","e","n","i","e","d">>,
      S_HTML |->
        <<"<","h","t","m","l",">","B","a","d"," ","G","a","t","e","w","a","y","<","/","h","t","m","l",">">>,
      S_SORRY |->
        <<"S","o","r","r","y",","," ","n","o"," ","t","a","b","l","e"," ","f","o","u","n","d",".">>,
      TXT_STRAY_AFTER |->
        <<"[","1","]"," ","d","o","n","e">>,
      TXT_STRAY_BEFORE |->
        <<"H","e","r","e",":"," ","[","1","]">>,
      TXT_TRUNCATED |->
        <<"[","{","\"","v","a","r","i","e","t","y","\"",":","\"","O","a">>,
      REASON_DNS |->
        <<"[","E","r","r","n","o"," ","-","2","]"," ","N","a","m","e"," ","o","r"," ","s","e","r","v","i","c","e"," ","n","o","t"," ","k","n","o","w","n">>,
      REASON_REFUSED |->
        <<"[","E","r","r","n","o"," ","1","1","1","]"," ","C","o","n","n","e","c","t","i","o","n"," ","r","e","f","u","s","e","d">>,
      REASON_TLS |->
        <<"[","S","S","L",":"," ","C","E","R","T","I","F","I","C","A","T","E","_","V","E","R","I","F","Y","_","F","A","I","L","E","D","]"," ","c","e","r","t","i","f","i","c","a","t","e"," ","v","e","r","i","f","y"," ","f","a","i","l","e","d">> ]

ApiKeyMembers ==
    { <<>>, <<<<K_APIKEY, JStr(<<>>)>>>>, <<<<K_APIKEY, JStr(Sample.KEY_REQ)>>>>, <<<<K_APIKEY, JNull>>>> }
ImageMembers ==
    { <<>>, <<<<K_IMAGEB64, JStr(<<>>)>>>>, <<<<K_IMAGEB64, JStr(Sample.IMAGE_DATA)>>>> }
MimeMembers ==
    { <<>>, <<<<K_MIMETYPE, JStr(Sample.MIME_PNG)>>>> }

RequestValues ==
    { JObj(a \o i \o m) : a \in ApiKeyMembers, i \in ImageMembers, m \in MimeMembers }
    \cup { JNull, JNum(0), JNum(5), JStr(<<>>), JStr(<<"x">>), JArr(<<>>), JArr(<<JNum(1)>>) }

\* bodies of POST /api/gemini: JSON texts, and one text that is no JSON
RequestBodies == { Dumps(v) : v \in RequestValues } \cup { Sample.BODY_NOT_JSON }

EnvKeys == { <<>>, Sample.KEY_ENV }


\* values of the rows the upstream model writes
RowValues ==
    { JObj(<< <<Sample.K_VARIETY, JStr(Sample.S_OATS)>>, <<Sample.K_MRP, JStr(Sample.S_405)>> >>),
      JObj(<< <<Sample.K_VARIETY, JStr(<<"a", BT, BT, BT, "b">>)>> >>),
      JStr(<<BT, BT, BT, "j", "s", "o", "n", "x">>),
      JNum(7) }

RowArrays == { JArr(a) : a \in UNION { [1..n -> RowValues] : n \in 0..MaxRows } }

\* a value that is no array
BareValues ==
    { JObj(<< <<Sample.K_VARIETY, JStr(Sample.S_OATS)>>, <<Sample.K_MRP, JStr(Sample.S_405)>> >>),
      JStr(Sample.S_OATS), JNum(5), JNull }

\* text that is no JSON: prose, stray text after and before an array, a cut-off array
ProseTexts == { Sample.S_SORRY, Sample.TXT_STRAY_AFTER, Sample.TXT_STRAY_BEFORE, Sample.TXT_TRUNCATED }

Wraps == {"none", "json", "plain", "spaced"}
Fenced(w) == w # "none"

\* the text t as the upstream model writes it: bare or inside a markdown fence
Wrap(w, t) ==
    CASE w = "none" -> t
      [] w = "json" -> FENCE_JSON \o <<"\n">> \o t \o <<"\n">> \o FENCE
      [] w = "plain" -> FENCE \o <<"\n">> \o t \o <<"\n">> \o FENCE
      [] w = "spaced" -> <<" ">> \o FENCE_JSON \o <<" ">> \o t \o <<" ">> \o FENCE \o <<"\n">>

\* the response envelope around a text value
Envelope(text) ==
    JObj(<< <<K_CANDIDATES,
              JArr(<< JObj(<< <<K_CONTENT,
                                JObj(<< <<K_PARTS, JArr(<< JObj(<< <<K_TEXT, text>> >>) >>)>> >>)>> >>) >>)>> >>)

\* a 2xx response.  shape: "text" for a well-formed envelope; json, val, wrap, content
\* and text tell what the upstream model wrote: the serialisation of val (json) or the
\* text content, wrapped as wrap says
OkOutcome(shape, json, val, wrap, content, body) ==
    [kind |-> "ok", shape |-> shape, json |-> json, val |-> val, wrap |-> wrap,
     content |-> content, text |-> Wrap(wrap, content), body |-> body]

TextOutcome(json, val, wrap, content) ==
    OkOutcome("text", json, val, wrap, content, Dumps(Envelope(JStr(Wrap(wrap, content)))))

MalformedOutcome(body) == OkOutcome("malformed", FALSE, JNull, "none", <<>>, body)

OkOutcomes ==
    { TextOutcome(TRUE, v, w, Dumps(v)) : v \in RowArrays \cup BareValues, w \in Wraps }
    \cup { TextOutcome(FALSE, JNull, w, t) : t \in ProseTexts, w \in Wraps }
    \cup { MalformedOutcome(b) :
             b \in { Dumps(JObj(<<>>)),
                     Dumps(JObj(<< <<K_CANDIDATES, JArr(<<>>)>> >>)),
                     Dumps(JObj(<< <<K_CANDIDATES,
                                     JArr(<< JObj(<< <<Sample.K_FINISH, JStr(Sample.S_SAFETY)>> >>) >>)>> >>)),
                     Dumps(Envelope(JNum(5))),
                     Dumps(JNull),
                     Sample.S_HTML } }

\* HTTP error statuses of the upstream
UpstreamStatuses == {400, 429, 500, 502, 503}

\* an HTTPError.  utf8: whether the body decodes; structured: whether the body is a
\* JSON object whose error member is an object with a message, and then message is it
HttpError(code, utf8, structured, message, body) ==
    [kind |-> "http_error", code |-> code, utf8 |-> utf8, structured |-> structured,
     message |-> message, body |-> body]

ErrorBodies ==
    { [utf8 |-> TRUE, structured |-> TRUE, message |-> Sample.S_RATE_LIMITED,
       body |-> Dumps(JObj(<< <<K_ERROR, JObj(<< <<Sample.K_CODE, JNum(429)>>,
                                                 <<K_MESSAGE, JStr(Sample.S_RATE_LIMITED)>> >>)>> >>))],
      [utf8 |-> TRUE, structured |-> FALSE, message |-> <<>>,
       body |-> Dumps(JObj(<< <<K_ERROR, JObj(<< <<Sample.K_CODE, JNum(429)>> >>)>> >>))],
      [utf8 |-> TRUE, structured |-> FALSE, message |-> <<>>,
       body |-> Dumps(JObj(<< <<K_ERROR, JStr(Sample.S_DENIED)>> >>))],
      [utf8 |-> TRUE, structured |-> FALSE, message |-> <<>>,
       body |-> Dumps(JObj(<< <<K_ERROR, JNull>> >>))],
      [utf8 |-> TRUE, structured |-> FALSE, message |-> <<>>,
       body |-> Dumps(JObj(<< <<K_MESSAGE, JStr(Sample.S_DENIED)>> >>))],
      [utf8 |-> TRUE, structured |-> FALSE, message |-> <<>>,
       body |-> Dumps(JArr(<< JStr(Sample.S_DENIED) >>))],
      [utf8 |-> TRUE, structured |-> FALSE, message |-> <<>>, body |-> Sample.S_HTML],
      [utf8 |-> TRUE, structured |-> FALSE, message |-> <<>>, body |-> <<>>],
      \* bytes that are no UTF-8 text: the body has no characters to show
      [utf8 |-> FALSE, structured |-> FALSE, message |-> <<>>, body |-> <<>>] }

HttpErrors ==
    { HttpError(c, b.utf8, b.structured, b.message, b.body) : c \in UpstreamStatuses, b \in ErrorBodies }

\* str(e.reason) of a URLError: DNS, connection and TLS failures
UrlErrorReasons == { Sample.REASON_DNS, Sample.REASON_REFUSED, Sample.REASON_TLS }
UrlErrors == { [kind |-> "url_error", reason |-> r] : r \in UrlErrorReasons }

(***************************************************************************)
(* The relay: one process (src/app.py or src/server.py) handling POST      *)
(* /api/gemini requests one after the other.  Nothing is kept from one     *)
(* request to the next.                                                    *)
(***************************************************************************)
\* no outcome yet: urlopen has not been called, or has not ended
NoOutcome == [kind |-> "none"]

NormIdle ==
    /\ nIn = <<>>
    /\ nOut = <<>>
    /\ nTwice = <<>>
    /\ nStage = 0

Init ==
    /\ impl \in {"app", "server"}
    /\ envKey \in EnvKeys
    /\ pc = "idle"
    /\ request = <<>>
    /\ calls = 0
    /\ outbound = <<>>
    /\ upstream = NoOutcome
    /\ emitted = <<>>
    /\ NormIdle

Precheck(body) == IF impl = "app" THEN AppPrecheck(body, envKey) ELSE ServerPrecheck(body)

\* the handler runs on a request, up to its response or to the call of urlopen
Receive ==
    /\ pc = "idle"
    /\ \E body \in RequestBodies, writes \in Writes :
         \E r \in {Precheck(body)} :
             /\ request' = body
             /\ IF r.call
                THEN /\ pc' = "calling"
                     /\ calls' = calls + 1
                     /\ outbound' = r.out
                     /\ emitted' = emitted
                ELSE /\ pc' = "done"
                     /\ emitted' = Emit(r.how, r.resp, writes)
                     /\ UNCHANGED <<calls, outbound>>
    /\ UNCHANGED <<impl, envKey, upstream>>
    /\ UNCHANGED normVars

\* urlopen ends with outcome o and the handler runs to its end
Complete(o, writes) ==
    /\ pc = "calling"
    /\ upstream' = o
    /\ \E r \in {Reply(o)} : emitted' = Emit(r.how, r.resp, writes)
    /\ pc' = "done"
    /\ UNCHANGED <<impl, envKey, request, calls, outbound>>
    /\ UNCHANGED normVars

\* urlopen returns a 2xx response
UpstreamResponds == \E o \in OkOutcomes, writes \in Writes : Complete(o, writes)

\* urlopen raises HTTPError
UpstreamRejects == \E o \in HttpErrors, writes \in Writes : Complete(o, writes)

\* urlopen raises URLError
UpstreamUnreachable == \E o \in UrlErrors, writes \in Writes : Complete(o, writes)

\* the read of the response times out: an exception that is no URLError
UpstreamTimesOut == \E writes \in Writes : Complete([kind |-> "timeout"], writes)

\* the request is over; the next one starts from nothing
Finish ==
    /\ pc = "done"
    /\ pc' = "idle"
    /\ request' = <<>>
    /\ calls' = 0
    /\ outbound' = <<>>
    /\ upstream' = NoOutcome
    /\ emitted' = <<>>
    /\ UNCHANGED <<impl, envKey>>
    /\ UNCHANGED normVars

Next ==
    \/ Receive
    \/ UpstreamResponds
    \/ UpstreamRejects
    \/ UpstreamUnreachable
    \/ UpstreamTimesOut
    \/ Finish

Spec == Init /\ [][Next]_vars

(***************************************************************************)
(* The normalisation run: Clean applied to a text, then to its own result. *)
(***************************************************************************)
RECURSIVE Concat(_)
Concat(ss) == IF ss = <<>> THEN <<>> ELSE Head(ss) \o Concat(Tail(ss))

NormTokens ==
    { <<BT>>, FENCE, FENCE_JSON, <<"j">>, <<"s","o","n">>, <<" ">>, <<"[","1","]">> }

NormInputs ==
    { Concat(ts) : ts \in UNION { [1..n -> NormTokens] : n \in 0..MaxTokens } }

\* no request is being handled; the input is any bounded text
InitNorm ==
    /\ impl = "app"
    /\ envKey = <<>>
    /\ pc = "idle"
    /\ request = <<>>
    /\ calls = 0
    /\ outbound = <<>>
    /\ upstream = NoOutcome
    /\ emitted = <<>>
    /\ nIn \in NormInputs
    /\ nOut = <<>>
    /\ nTwice = <<>>
    /\ nStage = 0

NormaliseOnce ==
    /\ nStage = 0
    /\ nOut' = Clean(nIn)
    /\ nStage' = 1
    /\ UNCHANGED <<nIn, nTwice>>
    /\ UNCHANGED relayVars

NormaliseAgain ==
    /\ nStage = 1
    /\ nTwice' = Clean(nOut)
    /\ nStage' = 2
    /\ UNCHANGED <<nIn, nOut>>
    /\ UNCHANGED relayVars

NextNorm == NormaliseOnce \/ NormaliseAgain

\* Clean applied to every bounded text, and again to its result
SpecNorm == InitNorm /\ [][NextNorm]_vars

(***************************************************************************)
(* Properties of the relay.  The request is read back from its body, and   *)
(* the response the handler decides on is the first one it emits.          *)
(***************************************************************************)
Payload == JsonLoads(request)
IsRequestObject == Payload.ok /\ IsDict(Payload.val)
RequestMember(k) ==
    IF IsRequestObject /\ HasKey(Payload.val.o, k) THEN DictGet(Payload.val, k, JNull) ELSE JNull

\* the request carries a non-empty image / a non-empty credential
ImagePresent == PyTruthy(RequestMember(K_IMAGEB64))
RequestKeyPresent == PyTruthy(RequestMember(K_APIKEY))
\* a credential is configured server-side or given in the request
CredentialResolvable == envKey # <<>> \/ RequestKeyPresent

Answered == pc = "done"
Decided == Head(emitted)

\* urlopen returned a 2xx response with a well-formed envelope around a text
TextReturned == Answered /\ upstream.kind = "ok" /\ upstream.shape = "text"
\* json.loads of the normalised text
ParsedText == JsonLoads(Clean(upstream.text))

\* C1: a request whose image is missing or empty, or for which no credential is
\* resolvable, is answered 400 with an error body and makes no outbound call, whatever
\* the body is (src/app.py and src/server.py).
C1_MissingInputRejected ==
    (pc # "idle" /\ (~ImagePresent \/ ~CredentialResolvable)) =>
        /\ calls = 0
        /\ Answered => (Decided.status = 400 /\ Decided.kind = "error")

\* C1, the failing case: a body that is a non-empty JSON array is answered 500
C1_Witness ==
    /\ Answered
    /\ request = Dumps(JArr(<<JNum(1)>>))
    /\ calls = 0
    /\ Decided.status = 500
    /\ Decided.error = AttributeErrorGet(JArr(<<JNum(1)>>))

\* C2: the credential of the outbound call is the configured GEMINI_API_KEY whenever it
\* is set, the request's apiKey only otherwise; with a configured credential a request
\* without apiKey passes the credential check (every implementation).
C2_ConfiguredKeyWins ==
    /\ calls = 1 =>
          outbound.key = IF envKey # <<>> THEN envKey ELSE PyStr(RequestMember(K_APIKEY))
    /\ (Answered /\ envKey # <<>> /\ IsRequestObject /\ ImagePresent /\ ~RequestKeyPresent)
          => calls = 1

\* C2, the failing case: src/server.py with a configured credential answers a request
\* without apiKey with 400 "Missing apiKey"
C2_Witness ==
    /\ impl = "server"
    /\ envKey = Sample.KEY_ENV
    /\ Answered
    /\ IsRequestObject /\ ImagePresent /\ ~RequestKeyPresent
    /\ calls = 0
    /\ Decided.status = 400
    /\ Decided.error = MSG_MISSING_APIKEY

\* C3: an upstream HTTP error with status s and body b is answered with status s and
\* the error "Gemini API error: " + m, m being b.error.message when b is an object whose
\* error member is an object with a message, and the raw body b otherwise; so a
\* rejection is answered 200, 502 or 500 only when s is that status.
C3_RejectionForwarded ==
    (Answered /\ upstream.kind = "http_error") =>
        /\ Decided.status = upstream.code
        /\ Decided.kind = "error"
        /\ Decided.error = PFX_GEMINI_API_ERROR
                             \o (IF upstream.structured THEN upstream.message ELSE upstream.body)

\* C3, the failing case: a 429 whose body is no UTF-8 text is answered 500
C3_Witness ==
    /\ Answered
    /\ upstream.kind = "http_error"
    /\ upstream.code = 429
    /\ ~upstream.utf8
    /\ Decided.status = 500

\* C4, as the code has it: a text that is no JSON after normalisation is answered 500
\* with the error "Failed to parse Gemini response: " followed by the decoder's
\* diagnostic (message, line, column, character offset); the text itself, raw or
\* normalised, is not part of the error.
C4_ParseFailureDiagnostic ==
    (TextReturned /\ ~ParsedText.ok) =>
        /\ Decided.status = 500
        /\ Decided.kind = "error"
        /\ Decided.error = PFX_FAILED_TO_PARSE
                             \o JSONDecodeErrorStr(Clean(upstream.text), ParsedText)
        /\ ~Occurs(Decided.error, upstream.text)
        /\ ~Occurs(Decided.error, Clean(upstream.text))

\* C4: prose, bare, is answered 500 with the diagnostic of its first character
C4_Witness ==
    /\ TextReturned
    /\ upstream.text = Sample.S_SORRY
    /\ ~ParsedText.ok
    /\ Decided.status = 500
    /\ Decided.error = PFX_FAILED_TO_PARSE \o JSONDecodeErrorStr(Sample.S_SORRY, ParseFail(JE.EXPECTING_VALUE, 0))

\* C4, as stated: a text that is no JSON after normalisation is answered 500 with an
\* error that contains the offending text the upstream returned.
C4_ParseFailureCarriesText ==
    (TextReturned /\ ~ParsedText.ok) =>
        /\ Decided.status = 500
        /\ Decided.kind = "error"
        /\ (Occurs(Decided.error, upstream.text) \/ Occurs(Decided.error, Clean(upstream.text)))

\* C5: when the text is the serialisation of a JSON array A inside a fence (with or
\* without the json tag, whitespace around it), the answer is 200 with rows equal to A,
\* whatever characters the strings of A hold.
C5_FencedArrayReturned ==
    (TextReturned /\ upstream.json /\ IsList(upstream.val) /\ Fenced(upstream.wrap)) =>
        /\ Decided.status = 200
        /\ Decided.kind = "rows"
        /\ Decided.rows = upstream.val

\* C5, the failing case: a fenced array with three backquotes inside a string value is
\* answered 200 with rows that differ from the array
C5_Witness ==
    /\ TextReturned
    /\ upstream.json /\ IsList(upstream.val) /\ Fenced(upstream.wrap)
    /\ Decided.status = 200
    /\ Decided.rows # upstream.val

\* C6, as the code has it: for the value v parsed from the normalised text the answer is
\* 200 with rows v when v is an array (whatever its elements) and the one-element array
\* [v] for every other v: an object, a number, a string, null.
C6_NonListWrapped ==
    (TextReturned /\ ParsedText.ok) =>
        /\ Decided.status = 200
        /\ Decided.kind = "rows"
        /\ Decided.rows = IF IsList(ParsedText.val) THEN ParsedText.val
                          ELSE JArr(<<ParsedText.val>>)

\* C6: a bare number is answered with the one-element array holding it
C6_Witness ==
    /\ TextReturned
    /\ ParsedText.ok
    /\ ParsedText.val = JNum(5)
    /\ Decided.status = 200
    /\ Decided.rows = JArr(<<JNum(5)>>)

\* C6, as stated: rows is [v] when v is an object and v itself for every other v.
C6_OnlyObjectWrapped ==
    (TextReturned /\ ParsedText.ok) =>
        /\ Decided.status = 200
        /\ Decided.kind = "rows"
        /\ Decided.rows = IF IsDict(ParsedText.val) THEN JArr(<<ParsedText.val>>)
                          ELSE ParsedText.val

\* the outbound call failed: rejection, unreachable upstream, timeout, unusable response
CallFailed ==
    \/ upstream.kind \in {"http_error", "url_error", "timeout"}
    \/ upstream.kind = "ok" /\ upstream.shape = "malformed"
    \/ upstream.kind = "ok" /\ upstream.shape = "text" /\ ~ParsedText.ok

\* C7: a request with a non-empty image and a resolvable credential makes exactly one
\* outbound call; no request makes a second call, and a request whose call failed ends
\* with an error response.
C7_ExactlyOneCall ==
    /\ calls <= 1
    /\ (Answered /\ IsRequestObject /\ ImagePresent /\ CredentialResolvable) => calls = 1
    /\ (Answered /\ calls = 1 /\ CallFailed) => Decided.status # 200

\* C7, the failing case: src/server.py makes no call for a request with an image whose
\* credential is the configured one
C7_Witness ==
    /\ impl = "server"
    /\ Answered
    /\ IsRequestObject /\ ImagePresent /\ CredentialResolvable
    /\ calls = 0

C9_NormaliseIdempotent ==
    /\ nStage >= 1 => ~Occurs(nOut, FENCE) /\ ~Occurs(nOut, FENCE_JSON)
    /\ (nStage >= 1 /\ ~Occurs(nIn, FENCE) /\ Strip(nIn) = nIn) => nOut = nIn
    /\ nStage = 2 => nTwice = nOut

\* C9: an input in which removing the tagged markers puts a new tagged marker together
C9_Witness ==
    /\ nStage = 2
    /\ Occurs(nIn, FENCE_JSON)
    /\ Occurs(StrRemove(nIn, FENCE_JSON), FENCE_JSON)
    /\ nOut # nIn
    /\ nTwice = nOut

\* C10: a request ends with exactly one response, 200 with rows or another status with
\* an error; no request emits a success response and then an error response, a failed
\* write to the client included.
C10_ExactlyOneResponse ==
    Answered =>
        /\ Len(emitted) = 1
        /\ \/ Decided.status = 200 /\ Decided.kind = "rows"
           \/ Decided.status # 200 /\ Decided.kind = "error"

\* C10, the failing case: src/server.py emits 200, the write of the rows fails, and it
\* emits 500 with the error of the write
C10_Witness ==
    /\ impl = "server"
    /\ Answered
    /\ Len(emitted) = 2
    /\ emitted[1].status = 200 /\ emitted[1].kind = "rows" /\ ~emitted[1].written
    /\ emitted[2].status = 500 /\ emitted[2].kind = "error" /\ emitted[2].written

====
